---------------------------- MODULE Spec2Model ----------------------------
(***************************************************************************)
(* A model of src/utils.py (bloomberg/climate-credit-risk): the multi-index *)
(* generator, the analytic and quadrature PCE moment engines, and the       *)
(* portfolio loss pipeline compute_loss_pca_pce.                            *)
(*                                                                         *)
(* Floating-point values are not computed.  Arrays are modelled by their    *)
(* shape and by WHICH quantity each entry holds (a tag), which is what the  *)
(* loops, the index arithmetic, numpy's broadcasting and np.triu/np.tril    *)
(* decide.  The global numpy random source is modelled as a deterministic   *)
(* generator: its state is the last seed and the number of scalars drawn    *)
(* since.                                                                   *)
(***************************************************************************)
EXTENDS Integers, Sequences, FiniteSets, TLC

\* ------------------------------------------------------------------ bounds
\* largest PCE order given to compute_multi_index and compute_loss_pca_pce
MaxPce == 7
\* largest PCE order given to the moment engines
MaxOrder == 3
\* largest length of the parameter vectors a and b
MaxK == 3
\* largest number of Monte-Carlo draws and of firms
MaxMc == 2
MaxFirms == 2
\* seeds are None or 0..MaxSeed
MaxSeed == 1

VARIABLES
    \* --- compute_multi_index
    mi_pc,       \* "idle" | "loop" | "done"
    mi_n,        \* the argument n_pce
    mi_m,        \* outer comprehension variable m
    mi_m1,       \* inner comprehension variable m1
    mi_rows,     \* the list of rows built by the comprehension
    mi_out,      \* the returned (m1, m2, m_comb)
    \* --- moment engines
    mo_in,       \* the arguments (n, a, b, n_quad) given to the engines
    mg,          \* mean_gauss_pce: record of its locals
    cg,          \* cov_gauss_pce: record of its locals
    qd,          \* mean_cov_pce_quad: record of its locals
    \* --- compute_loss_pca_pce
    lo           \* record of the loss pipeline's state

vars == <<mi_pc, mi_n, mi_m, mi_m1, mi_rows, mi_out, mo_in, mg, cg, qd, lo>>
mo_vars == <<mo_in, mg, cg, qd>>
mi_vars == <<mi_pc, mi_n, mi_m, mi_m1, mi_rows, mi_out>>

\* ======================================================================
\* compute_multi_index (src/utils.py 495-509)
\* ======================================================================

RECURSIVE ProdRange(_, _)
\* the product lo * (lo+1) * ... * hi  (1 when the range is empty)
ProdRange(lo_, hi_) == IF lo_ > hi_ THEN 1 ELSE lo_ * ProdRange(lo_ + 1, hi_)

\* scipy.special.comb(N, k) with exact=False, then int(): 0 outside
\* 0 <= k <= N, else binom's multiplicative loop over the smaller of k and
\* N-k: prod_{i=1..kx} (i + N - kx) / prod_{i=1..kx} i.  (The float result is
\* exact while the products stay below 2^53, which holds for every order
\* the model reaches.)
special_comb(N, k) ==
    IF ~(k <= N /\ N >= 0 /\ k >= 0) THEN 0
    ELSE LET kx == IF 2 * k > N THEN N - k ELSE k
         IN  ProdRange(1 + N - kx, kx + N - kx) \div ProdRange(1, kx)

\* np.arange(stop) as the ordered values 0..stop-1
arange(stop) == [i \in 1..(IF stop > 0 THEN stop ELSE 0) |-> i - 1]

\* one row of the comprehension: [int(m1), int(m - m1), int(comb(m, m1))]
MultiIndexRow(m, m1) == <<m1, m - m1, special_comb(m, m1)>>

\* the inner range written without its "+ 1": the diagonal pairs (m, m) are
\* then missing (the enumeration claim must tell this from the code)
InnerRangeShort(m) == arange(m)
\* the inner range of the comprehension: for m1 in np.arange(m + 1)
InnerRange(m) == arange(m + 1)

\* np.array(rows).T followed by the three row reads [0,:], [1,:], [2,:]
TransposeRows(rows) ==
    [m1 |-> [p \in 1..Len(rows) |-> rows[p][1]],
     m2 |-> [p \in 1..Len(rows) |-> rows[p][2]],
     m_comb |-> [p \in 1..Len(rows) |-> rows[p][3]]]

NoTable == [m1 |-> <<>>, m2 |-> <<>>, m_comb |-> <<>>]

MI_Idle ==
    /\ mi_pc = "idle" /\ mi_n = 0 /\ mi_m = 0 /\ mi_m1 = 0
    /\ mi_rows = <<>> /\ mi_out = NoTable

\* entry: the comprehension starts at m = 0, m1 = 0
MI_Call(n) ==
    /\ mi_pc = "idle"
    /\ mi_pc' = "loop"
    /\ mi_n' = n
    /\ mi_m' = 0
    /\ mi_m1' = 0
    /\ mi_rows' = <<>>
    /\ UNCHANGED <<mi_out, mo_vars, lo>>

\* one iteration of "for m in arange(n_pce+1) for m1 in arange(m+1)"
MI_Append ==
    /\ mi_pc = "loop"
    /\ mi_m + 1 <= Len(arange(mi_n + 1))
    /\ mi_m1 + 1 <= Len(InnerRange(mi_m))
    /\ mi_rows' = Append(mi_rows, MultiIndexRow(arange(mi_n + 1)[mi_m + 1],
                                                InnerRange(mi_m)[mi_m1 + 1]))
    /\ mi_m1' = mi_m1 + 1
    /\ UNCHANGED <<mi_pc, mi_n, mi_m, mi_out, mo_vars, lo>>

\* the inner range is exhausted: next m
MI_NextM ==
    /\ mi_pc = "loop"
    /\ mi_m + 1 <= Len(arange(mi_n + 1))
    /\ mi_m1 + 1 > Len(InnerRange(mi_m))
    /\ mi_m' = mi_m + 1
    /\ mi_m1' = 0
    /\ UNCHANGED <<mi_pc, mi_n, mi_rows, mi_out, mo_vars, lo>>

\* the outer range is exhausted: transpose and return the three rows
MI_Return ==
    /\ mi_pc = "loop"
    /\ mi_m + 1 > Len(arange(mi_n + 1))
    /\ mi_pc' = "done"
    /\ mi_out' = TransposeRows(mi_rows)
    /\ UNCHANGED <<mi_n, mi_m, mi_m1, mi_rows, mo_vars, lo>>

EngineIdle == [pc |-> "idle"]
MO_Idle == mo_in = [n |-> 0] /\ mg = EngineIdle /\ cg = EngineIdle /\ qd = EngineIdle
LO_Idle == lo = [pc |-> "idle"]

InitMulti == MI_Idle /\ MO_Idle /\ LO_Idle
NextMulti ==
    \/ \E n \in 0..MaxPce : MI_Call(n)
    \/ MI_Append
    \/ MI_NextM
    \/ MI_Return
SpecMulti == InitMulti /\ [][NextMulti]_vars

\* ----------------------------------------------------------------------
\* C1
\* ----------------------------------------------------------------------
RECURSIVE Pascal(_, _)
\* the binomial coefficient C(m, k) by Pascal's rule
Pascal(m, k) ==
    IF k < 0 \/ k > m THEN 0
    ELSE IF k = 0 \/ k = m THEN 1
    ELSE Pascal(m - 1, k - 1) + Pascal(m - 1, k)

\* position (1-based) of the pair (m, m1) in the order "m ascending, then
\* m1 ascending"
PosOf(m, m1) == (m * (m + 1)) \div 2 + m1 + 1

\* C1: for every n_pce >= 0 compute_multi_index returns three parallel
\* sequences of length (n_pce+1)(n_pce+2)/2; the entry at the position of
\* (m, m1) in the order m ascending, m1 ascending is (m1, m-m1, C(m, m1));
\* every pair (x, y) with 0 <= x <= x+y <= n_pce appears exactly once.
C1_MultiIndexEnumeration ==
    mi_pc = "done" =>
        LET n == mi_n
            len == ((n + 1) * (n + 2)) \div 2
        IN  /\ Len(mi_out.m1) = len
            /\ Len(mi_out.m2) = len
            /\ Len(mi_out.m_comb) = len
            /\ \A m \in 0..n : \A m1 \in 0..m :
                  /\ mi_out.m1[PosOf(m, m1)] = m1
                  /\ mi_out.m2[PosOf(m, m1)] = m - m1
                  /\ mi_out.m_comb[PosOf(m, m1)] = Pascal(m, m1)
            /\ \A x \in 0..n : \A y \in 0..(n - x) :
                  Cardinality({p \in 1..len :
                      mi_out.m1[p] = x /\ mi_out.m2[p] = y}) = 1

\* a finished call of order >= 2: the table has a row with m1, m2 >= 1
C1_Witness ==
    /\ mi_pc = "done"
    /\ mi_n >= 2
    /\ \E p \in 1..Len(mi_out.m1) :
          mi_out.m1[p] >= 1 /\ mi_out.m2[p] >= 1 /\ mi_out.m_comb[p] >= 2

\* ======================================================================
\* numpy shapes, broadcasting and tagged tensors
\* ======================================================================

\* the shape of a failed broadcast
ShapeErr == <<-1>>

\* a one-sided rule that stretches an extent of 1 on the left operand only
BroadcastDimNoStretch(x, y) ==
    IF x = y THEN x ELSE IF x = 1 THEN y ELSE -1
\* numpy's rule for one axis: equal extents, or one of them is 1
BroadcastDim(x, y) ==
    IF x = y THEN x ELSE IF x = 1 THEN y ELSE IF y = 1 THEN x ELSE -1

\* extent of shape s on axis i of a rank-r result (s is right-aligned and
\* left-padded with 1s)
PadDim(s, r, i) == IF i <= r - Len(s) THEN 1 ELSE s[i - (r - Len(s))]

\* numpy broadcasting of two evaluated shapes (right-aligned); ShapeErr when
\* an axis pair is incompatible ("operands could not be broadcast together")
BroadcastShapes(s, t) ==
    IF s = ShapeErr \/ t = ShapeErr THEN ShapeErr
    ELSE LET r == IF Len(s) > Len(t) THEN Len(s) ELSE Len(t)
         IN  IF \E i \in 1..r : BroadcastDim(PadDim(s, r, i), PadDim(t, r, i)) = -1
             THEN ShapeErr
             ELSE [i \in 1..r |-> BroadcastDim(PadDim(s, r, i), PadDim(t, r, i))]

\* the same on shape expressions, each evaluated once
Broadcast(s0, t0) ==
    CHOOSE res \in {BroadcastShapes(s, t) : s \in {s0}, t \in {t0}} : TRUE

\* dst[...] = src is accepted when src broadcasts to dst's shape
CanAssign(dst, src) == src # ShapeErr /\ Len(src) <= Len(dst) /\ Broadcast(src, dst) = dst

\* np.sum(x, axis=0) on a 2-D shape
SumAxis0(s) == IF s = ShapeErr THEN ShapeErr ELSE Tail(s)

\* np.atleast_1d: a 0-d input becomes a length-1 vector
atleast_1d(s) == IF Len(s) = 0 THEN <<1>> ELSE s

\* an entry of a tensor: which quantity it holds
Zero == [tag |-> "zero", i |-> 0, j |-> 0, k |-> 0]
Val(t, i, j, k) == [tag |-> t, i |-> i, j |-> j, k |-> k]

\* np.zeros((rows, K)) and np.zeros((rows, cols, K)), 0-based indices
Zeros2(rows, K) == [idx \in (0..(rows - 1)) \X (0..(K - 1)) |-> Zero]
Zeros3(rows, cols, K) ==
    [idx \in (0..(rows - 1)) \X (0..(cols - 1)) \X (0..(K - 1)) |-> Zero]

\* the argument shapes of the moment engines: a 0-d scalar or a vector
ArgShapes == {<<>>} \cup {<<k>> : k \in 0..MaxK}

\* default of the n_quad option
NQuadDefault == 40

\* ======================================================================
\* mean_gauss_pce (src/utils.py 160-205)
\* ======================================================================

\* a.shape[0] on a 0-d array raises IndexError (tuple index out of range)
HasAxis0(s) == Len(s) >= 1

\* a guard that only rejects a longer than b
ShapeMismatchOneSided(sa, sb) == sa[1] > sb[1]
\* the guard "a.shape[0] != b.shape[0]" of lines 185 and 285
ShapeMismatch(sa, sb) == sa[1] # sb[1]

\* the quantity assigned to mean_pce[i, k]
MeanTag(i) ==
    IF i = 0 THEN "mean_cdf" ELSE IF i = 1 THEN "mean_pdf"
    ELSE IF i = 2 THEN "mean_base2" ELSE "mean_rec"

\* the whole function on matching shapes, as called from cov_gauss_pce and
\* _sigma0_matrix
mean_gauss_pce(n, K) ==
    [idx \in (0..n) \X (0..(K - 1)) |-> Val(MeanTag(idx[1]), idx[1], 0, idx[2])]

MG_Call ==
    /\ mg.pc = "idle"
    /\ cg.pc \in {"idle", "done", "raised"}
    /\ qd.pc \in {"idle", "done", "raised"}
    /\ mg' = [pc |-> "check", err |-> "none", allocated |-> FALSE, steps |-> 0,
              i |-> 0, mean |-> <<>>, result |-> <<>>, returned |-> FALSE]
    /\ UNCHANGED <<mi_vars, mo_in, cg, qd, lo>>

\* lines 185-186
MG_Check ==
    /\ mg.pc = "check"
    /\ mg' = IF ~(HasAxis0(mo_in.a) /\ HasAxis0(mo_in.b))
                THEN [mg EXCEPT !.pc = "raised", !.err = "IndexError"]
             ELSE IF ShapeMismatch(mo_in.a, mo_in.b)
                THEN [mg EXCEPT !.pc = "raised", !.err = "ValueError"]
             ELSE [mg EXCEPT !.pc = "alloc"]
    /\ UNCHANGED <<mi_vars, mo_in, cg, qd, lo>>

\* lines 188-189
MG_Alloc ==
    /\ mg.pc = "alloc"
    /\ mg' = [mg EXCEPT !.pc = "loop", !.allocated = TRUE, !.i = 0,
                        !.mean = Zeros2(mo_in.n + 1, mo_in.a[1])]
    /\ UNCHANGED <<mi_vars, mo_in, cg, qd, lo>>

\* lines 190-203: one iteration of "for i in range(n + 1)"
MG_Row ==
    /\ mg.pc = "loop"
    /\ mg.i < mo_in.n + 1
    /\ mg' = [mg EXCEPT !.i = @ + 1, !.steps = @ + 1,
                        !.mean = [idx \in DOMAIN mg.mean |->
                                    IF idx[1] = mg.i
                                    THEN Val(MeanTag(mg.i), mg.i, 0, idx[2])
                                    ELSE mg.mean[idx]]]
    /\ UNCHANGED <<mi_vars, mo_in, cg, qd, lo>>

\* line 205
MG_Return ==
    /\ mg.pc = "loop"
    /\ ~(mg.i < mo_in.n + 1)
    /\ mg' = [mg EXCEPT !.pc = "done", !.result = mg.mean, !.returned = TRUE]
    /\ UNCHANGED <<mi_vars, mo_in, cg, qd, lo>>

\* ======================================================================
\* _sigma0_matrix (208-253) and cov_gauss_pce (256-302)
\* ======================================================================

\* sigma0_n[j, k]: row j of the first row of the covariance, every j in 0..n
\* is assigned (239, 244, 248-251)
sigma0_matrix(n, K) ==
    [idx \in (0..n) \X (0..(K - 1)) |-> Val("sigma0", 0, idx[1], idx[2])]

\* range(lo, hi) as the ordered values lo..hi-1
range(lo_, hi_) == [i \in 1..(IF hi_ > lo_ THEN hi_ - lo_ ELSE 0) |-> lo_ + i - 1]

\* the loop ranges of lines 294 and 295
CG_RangeI(n) == range(0, n)
CG_RangeJ(n) == range(0, n - 1)

CG_Call ==
    /\ cg.pc = "idle"
    /\ mg.pc \in {"idle", "done", "raised"}
    /\ qd.pc \in {"idle", "done", "raised"}
    /\ cg' = [pc |-> "check", err |-> "none", allocated |-> FALSE, steps |-> 0,
              i |-> 0, j |-> 0, mean_vector |-> <<>>, cov |-> <<>>,
              assigned |-> {}, uninit_reads |-> {}, result |-> <<>>,
              returned |-> FALSE]
    /\ UNCHANGED <<mi_vars, mo_in, mg, qd, lo>>

\* lines 285-286
CG_Check ==
    /\ cg.pc = "check"
    /\ cg' = IF ~(HasAxis0(mo_in.a) /\ HasAxis0(mo_in.b))
                THEN [cg EXCEPT !.pc = "raised", !.err = "IndexError"]
             ELSE IF ShapeMismatch(mo_in.a, mo_in.b)
                THEN [cg EXCEPT !.pc = "raised", !.err = "ValueError"]
             ELSE [cg EXCEPT !.pc = "mean"]
    /\ UNCHANGED <<mi_vars, mo_in, mg, qd, lo>>

\* line 288
CG_Mean ==
    /\ cg.pc = "mean"
    /\ cg' = [cg EXCEPT !.pc = "alloc",
                        !.mean_vector = mean_gauss_pce(mo_in.n, mo_in.a[1])]
    /\ UNCHANGED <<mi_vars, mo_in, mg, qd, lo>>

\* line 290
CG_Alloc ==
    /\ cg.pc = "alloc"
    /\ cg' = [cg EXCEPT !.pc = "sigma0", !.allocated = TRUE,
                        !.cov = Zeros3(mo_in.n + 1, mo_in.n + 1, mo_in.a[1])]
    /\ UNCHANGED <<mi_vars, mo_in, mg, qd, lo>>

\* line 291: cov_matrix[0, :, :] = _sigma0_matrix(n, a, b)
CG_Sigma0 ==
    /\ cg.pc = "sigma0"
    /\ cg' = [cg EXCEPT !.pc = "col0",
                        !.cov = [idx \in DOMAIN cg.cov |->
                                   IF idx[1] = 0
                                   THEN sigma0_matrix(mo_in.n, mo_in.a[1])[<<idx[2], idx[3]>>]
                                   ELSE cg.cov[idx]],
                        !.assigned = @ \cup {<<0, c>> : c \in 0..mo_in.n}]
    /\ UNCHANGED <<mi_vars, mo_in, mg, qd, lo>>

\* line 292: cov_matrix[:, 0, :] = cov_matrix[0, :, :]
CG_Col0 ==
    /\ cg.pc = "col0"
    /\ cg' = [cg EXCEPT !.pc = "loop", !.i = 0, !.j = 0,
                        !.cov = [idx \in DOMAIN cg.cov |->
                                   IF idx[2] = 0
                                   THEN cg.cov[<<0, idx[1], idx[3]>>]
                                   ELSE cg.cov[idx]],
                        !.assigned = @ \cup {<<r, 0>> : r \in 0..mo_in.n}]
    /\ UNCHANGED <<mi_vars, mo_in, mg, qd, lo>>

\* the entries line 296-300 reads to compute cov_matrix[i+1, j+1, :]
CG_Reads(i, j) == {<<i, j + 2>>, <<i, j + 1>>, <<i, j>>}

\* lines 296-300: one iteration of the double loop
CG_Step ==
    /\ cg.pc = "loop"
    /\ cg.i + 1 <= Len(CG_RangeI(mo_in.n))
    /\ cg.j + 1 <= Len(CG_RangeJ(mo_in.n))
    /\ LET i == CG_RangeI(mo_in.n)[cg.i + 1]
           j == CG_RangeJ(mo_in.n)[cg.j + 1]
           stale == CG_Reads(i, j) \ cg.assigned
           tag == IF stale = {} THEN "rec" ELSE "rec_from_zero_init"
       IN  cg' = [cg EXCEPT !.j = @ + 1, !.steps = @ + 1,
                            !.cov = [idx \in DOMAIN cg.cov |->
                                       IF idx[1] = i + 1 /\ idx[2] = j + 1
                                       THEN Val(tag, i + 1, j + 1, idx[3])
                                       ELSE cg.cov[idx]],
                            !.assigned = @ \cup {<<i + 1, j + 1>>},
                            !.uninit_reads = @ \cup stale]
    /\ UNCHANGED <<mi_vars, mo_in, mg, qd, lo>>

\* the inner range is exhausted: next i
CG_NextI ==
    /\ cg.pc = "loop"
    /\ cg.i + 1 <= Len(CG_RangeI(mo_in.n))
    /\ ~(cg.j + 1 <= Len(CG_RangeJ(mo_in.n)))
    /\ cg' = [cg EXCEPT !.i = @ + 1, !.j = 0]
    /\ UNCHANGED <<mi_vars, mo_in, mg, qd, lo>>

\* line 302
CG_Return ==
    /\ cg.pc = "loop"
    /\ ~(cg.i + 1 <= Len(CG_RangeI(mo_in.n)))
    /\ cg' = [cg EXCEPT !.pc = "done", !.result = cg.cov, !.returned = TRUE]
    /\ UNCHANGED <<mi_vars, mo_in, mg, qd, lo>>

\* ======================================================================
\* mean_cov_pce_quad (src/utils.py 305-405)
\* ======================================================================

\* np.triu(T) on a 3-D array: numpy applies it to the LAST TWO axes, so it
\* keeps T[m1, m2, k] where k >= m2 and zeroes the rest
np_triu(T) == [idx \in DOMAIN T |-> IF idx[3] >= idx[2] THEN T[idx] ELSE Zero]

\* np.tril(T, d) on a 3-D array, again on the last two axes: keeps
\* T[m1, m2, k] where k <= m2 + d
np_tril(T, d) == [idx \in DOMAIN T |-> IF idx[3] <= idx[2] + d THEN T[idx] ELSE Zero]

\* T.transpose(1, 0, 2) of a tensor whose first two axes have equal extent
transpose_1_0_2(T) == [idx \in DOMAIN T |-> T[<<idx[2], idx[1], idx[3]>>]]

\* elementwise sum of two tagged tensors: 0 + v = v
AddVal(u, v) ==
    IF u = Zero THEN v ELSE IF v = Zero THEN u
    ELSE [tag |-> "sum", i |-> u.i + v.i, j |-> u.j + v.j, k |-> u.k]
np_add(T, U) == [idx \in DOMAIN T |-> AddVal(T[idx], U[idx])]

\* lines 390-392
mirror_lower(T) == np_add(np_triu(T), np_tril(transpose_1_0_2(T), -1))

\* the quantity assigned to mean_pce_quad[m, k] (340-355)
QMeanTag(m) == IF m = 0 THEN "mean_cdf" ELSE IF m = 1 THEN "mean_pdf" ELSE "mean_quad"

\* shape of -b / (1 + a**2)**0.5 and of exp(-0.5 * b**2 / (a**2 + 1))
Q_ShapeBA(q) == Broadcast(q.b, q.a)

\* shape of the right-hand side assigned to mean_pce_quad[m] (341-355)
Q_MeanRowShape(q, m) ==
    IF m <= 1 THEN Q_ShapeBA(q)
    ELSE Broadcast(Broadcast(SumAxis0(Broadcast(<<q.n_quad, 1>>, q.y_he_ab)), q.sig),
                   Q_ShapeBA(q))

\* shape of integrand_m (365-383)
Q_IntegrandShape(q, m) ==
    IF m = 0 THEN q.x_he_ab
    ELSE Broadcast(Broadcast(q.y_he_ab, q.sig), Q_ShapeBA(q))

\* shape of np.sum(w_he[:, None] * integrand_m1 * integrand_m2, axis=0)
Q_CovEntryShape(q, m1, m2) ==
    SumAxis0(Broadcast(Broadcast(<<q.n_quad, 1>>, Q_IntegrandShape(q, m1)),
                       Q_IntegrandShape(q, m2)))

Q_Call ==
    /\ qd.pc = "idle"
    /\ mg.pc \in {"idle", "done", "raised"}
    /\ cg.pc \in {"idle", "done", "raised"}
    /\ qd' = [pc |-> "atleast_1d", err |-> "none", n_quad |-> mo_in.n_quad,
              a |-> mo_in.a, b |-> mo_in.b,
              x_he_ab |-> <<>>, mu |-> <<>>, sig |-> <<>>, y_he_ab |-> <<>>,
              mean_allocated |-> FALSE, cov_allocated |-> FALSE,
              m |-> 0, m1 |-> 0, m2 |-> 0,
              mean |-> <<>>, cov_loop |-> <<>>, cov |-> <<>>,
              returned |-> FALSE]
    /\ UNCHANGED <<mi_vars, mo_in, mg, cg, lo>>

\* lines 331-332
Q_Atleast1d ==
    /\ qd.pc = "atleast_1d"
    /\ qd' = [qd EXCEPT !.pc = "x_he_ab", !.a = atleast_1d(qd.a), !.b = atleast_1d(qd.b)]
    /\ UNCHANGED <<mi_vars, mo_in, mg, cg, lo>>

\* lines 395-396: x_he_ab = a[None, :] * x_he[:, None] + b[None, :]
Q_XHeAb ==
    /\ qd.pc = "x_he_ab"
    /\ LET s == Broadcast(Broadcast(<<1>> \o qd.a, <<qd.n_quad, 1>>), <<1>> \o qd.b)
       IN  qd' = IF s = ShapeErr
                 THEN [qd EXCEPT !.pc = "raised", !.err = "ValueError"]
                 ELSE [qd EXCEPT !.pc = "transform", !.x_he_ab = s]
    /\ UNCHANGED <<mi_vars, mo_in, mg, cg, lo>>

\* lines 397-399: mu, sig and y_he_ab
Q_Transform ==
    /\ qd.pc = "transform"
    /\ LET mu == Broadcast(Broadcast(qd.a, qd.b), qd.a)
           sig == qd.a
           y == Broadcast(
                    Broadcast(<<1>> \o qd.a,
                              Broadcast(Broadcast(<<1>> \o sig, <<qd.n_quad, 1>>),
                                        <<1>> \o mu)),
                    <<1>> \o qd.b)
       IN  qd' = IF mu = ShapeErr \/ y = ShapeErr
                 THEN [qd EXCEPT !.pc = "raised", !.err = "ValueError"]
                 ELSE [qd EXCEPT !.pc = "mean_alloc", !.mu = mu, !.sig = sig,
                                 !.y_he_ab = y]
    /\ UNCHANGED <<mi_vars, mo_in, mg, cg, lo>>

\* line 338
Q_MeanAlloc ==
    /\ qd.pc = "mean_alloc"
    /\ qd' = [qd EXCEPT !.pc = "mean_loop", !.mean_allocated = TRUE, !.m = 0,
                        !.mean = Zeros2(mo_in.n + 1, qd.a[1])]
    /\ UNCHANGED <<mi_vars, mo_in, mg, cg, lo>>

\* lines 339-355: one iteration of "for m in range(n_pce + 1)"
Q_MeanRow ==
    /\ qd.pc = "mean_loop"
    /\ qd.m < mo_in.n + 1
    /\ qd' = IF ~CanAssign(qd.a, Q_MeanRowShape(qd, qd.m))
             THEN [qd EXCEPT !.pc = "raised", !.err = "ValueError"]
             ELSE [qd EXCEPT !.m = @ + 1,
                             !.mean = [idx \in DOMAIN qd.mean |->
                                         IF idx[1] = qd.m
                                         THEN Val(QMeanTag(qd.m), qd.m, 0, idx[2])
                                         ELSE qd.mean[idx]]]
    /\ UNCHANGED <<mi_vars, mo_in, mg, cg, lo>>

\* lines 356 and 363
Q_CovAlloc ==
    /\ qd.pc = "mean_loop"
    /\ ~(qd.m < mo_in.n + 1)
    /\ qd' = [qd EXCEPT !.pc = "cov_loop", !.cov_allocated = TRUE,
                        !.m1 = 0, !.m2 = 0,
                        !.cov_loop = Zeros3(mo_in.n + 1, mo_in.n + 1, qd.a[1])]
    /\ UNCHANGED <<mi_vars, mo_in, mg, cg, lo>>

\* lines 374-387: one iteration of "for m2 in range(m1, n_pce + 1)"
Q_CovEntry ==
    /\ qd.pc = "cov_loop"
    /\ qd.m1 < mo_in.n + 1
    /\ qd.m2 < mo_in.n + 1
    /\ qd' = IF ~CanAssign(qd.a, Q_CovEntryShape(qd, qd.m1, qd.m2))
             THEN [qd EXCEPT !.pc = "raised", !.err = "ValueError"]
             ELSE [qd EXCEPT !.m2 = @ + 1,
                             !.cov_loop = [idx \in DOMAIN qd.cov_loop |->
                                  IF idx[1] = qd.m1 /\ idx[2] = qd.m2
                                  THEN Val("quad", qd.m1, qd.m2, idx[3])
                                  ELSE qd.cov_loop[idx]]]
    /\ UNCHANGED <<mi_vars, mo_in, mg, cg, lo>>

\* line 364: next m1, the inner loop restarts at m2 = m1
Q_CovNextM1 ==
    /\ qd.pc = "cov_loop"
    /\ qd.m1 < mo_in.n + 1
    /\ ~(qd.m2 < mo_in.n + 1)
    /\ qd' = [qd EXCEPT !.m1 = @ + 1, !.m2 = qd.m1 + 1]
    /\ UNCHANGED <<mi_vars, mo_in, mg, cg, lo>>

\* lines 389-393
Q_Mirror ==
    /\ qd.pc = "cov_loop"
    /\ ~(qd.m1 < mo_in.n + 1)
    /\ qd' = [qd EXCEPT !.pc = "return", !.cov = mirror_lower(qd.cov_loop)]
    /\ UNCHANGED <<mi_vars, mo_in, mg, cg, lo>>

\* line 405
Q_Return ==
    /\ qd.pc = "return"
    /\ qd' = [qd EXCEPT !.pc = "done", !.returned = TRUE]
    /\ UNCHANGED <<mi_vars, mo_in, mg, cg, lo>>

\* ----------------------------------------------------------------------
\* the moment engines called, one after the other and in any order, on the
\* same arguments
\* ----------------------------------------------------------------------
InitMoments ==
    /\ MI_Idle /\ LO_Idle
    /\ mo_in \in [n : 0..MaxOrder, a : ArgShapes, b : ArgShapes, n_quad : {NQuadDefault}]
    /\ mg = EngineIdle /\ cg = EngineIdle /\ qd = EngineIdle

NextMoments ==
    \/ MG_Call \/ MG_Check \/ MG_Alloc \/ MG_Row \/ MG_Return
    \/ CG_Call \/ CG_Check \/ CG_Mean \/ CG_Alloc \/ CG_Sigma0 \/ CG_Col0
    \/ CG_Step \/ CG_NextI \/ CG_Return
    \/ Q_Call \/ Q_Atleast1d \/ Q_XHeAb \/ Q_Transform \/ Q_MeanAlloc
    \/ Q_MeanRow \/ Q_CovAlloc \/ Q_CovEntry \/ Q_CovNextM1 \/ Q_Mirror
    \/ Q_Return

SpecMoments == InitMoments /\ [][NextMoments]_vars

\* ----------------------------------------------------------------------
\* claims about the moment engines
\* ----------------------------------------------------------------------

\* both arguments are vectors (len() is defined)
VectorArgs == Len(mo_in.a) = 1 /\ Len(mo_in.b) = 1
LenA == mo_in.a[1]
LenB == mo_in.b[1]

\* C3: mean_gauss_pce and cov_gauss_pce called with len(a) != len(b) raise
\* the shape-mismatch ValueError as their first step: the call is either
\* still before its check or has raised, and no output tensor was
\* allocated, no recursion step ran and nothing was returned.
C3_AnalyticEagerShapeCheck ==
    (VectorArgs /\ LenA # LenB) =>
        \A e \in {mg, cg} :
            e.pc # "idle" =>
                /\ e.pc \in {"check", "raised"}
                /\ e.pc = "raised" => e.err = "ValueError"
                /\ ~e.allocated
                /\ e.steps = 0
                /\ ~e.returned

\* both analytic calls have raised on vectors of unequal length
C3_Witness ==
    /\ VectorArgs /\ LenA < LenB
    /\ mg.pc = "raised" /\ mg.err = "ValueError"
    /\ cg.pc = "raised" /\ cg.err = "ValueError"

C5_QuadCovMirrored ==
    qd.pc = "done" =>
        \A idx \in DOMAIN qd.cov :
            idx[1] <= idx[2] =>
                /\ qd.cov[idx] = qd.cov_loop[idx]
                /\ qd.cov[<<idx[2], idx[1], idx[3]>>] = qd.cov_loop[idx]

\* which covariance an entry holds, up to the order of the two PCE orders;
\* an entry never written holds the zero of np.zeros
CovDenote(v) ==
    IF v.tag = "zero" THEN [cov |-> FALSE, lo |-> 0, hi |-> 0, k |-> 0]
    ELSE [cov |-> TRUE,
          lo |-> IF v.i <= v.j THEN v.i ELSE v.j,
          hi |-> IF v.i <= v.j THEN v.j ELSE v.i,
          k |-> v.k]

\* which mean an entry holds
MeanDenote(v) ==
    IF v.tag = "zero" THEN [mean |-> FALSE, i |-> 0, k |-> 0]
    ELSE [mean |-> TRUE, i |-> v.i, k |-> v.k]

\* C6 as stated: the tensor returned by cov_gauss_pce has every entry
\* cov[i, j, k], 0 <= i, j <= n, filled (row/column 0 from sigma0, the
\* interior from the recursion) and is symmetric in (i, j) for every k.
C6_CovGaussFilledSymmetric ==
    cg.pc = "done" =>
        \A idx \in DOMAIN cg.result :
            /\ <<idx[1], idx[2]>> \in cg.assigned
            /\ cg.result[idx].tag # "zero"
            /\ CovDenote(cg.result[idx])
                  = CovDenote(cg.result[<<idx[2], idx[1], idx[3]>>])

\* C8 as stated: on the same (n, a, b) the quadrature engine returns, entry
\* by entry, the same mean and the same covariance as the analytic engine
\* (here: every entry of the one holds the same quantity as the entry of
\* the other; an entry left at zero is no approximation of a covariance).
C8_QuadAgreesWithAnalytic ==
    (mg.pc = "done" /\ cg.pc = "done" /\ qd.pc = "done") =>
        /\ DOMAIN qd.mean = DOMAIN mg.result
        /\ \A idx \in DOMAIN mg.result :
              MeanDenote(qd.mean[idx]) = MeanDenote(mg.result[idx])
        /\ DOMAIN qd.cov = DOMAIN cg.result
        /\ \A idx \in DOMAIN cg.result :
              CovDenote(qd.cov[idx]) = CovDenote(cg.result[idx])

\* C11 as stated: in the interior recursion of cov_gauss_pce every entry read
\* to compute cov[i+1, j+1] (cov[i, j+2], cov[i, j+1], cov[i, j]) has been
\* assigned before, by the sigma0 row/column 0 or by an earlier step; no step
\* reads an entry that still holds the zero of np.zeros, and so no entry is
\* computed from one.  (With vectors of length 0 the slices hold no entry, so
\* the read set counts only when a has an entry.)
C11_RecursionReadsAssigned ==
    cg.pc \in {"loop", "done"} =>
        /\ mo_in.a[1] >= 1 => cg.uninit_reads = {}
        /\ \A idx \in DOMAIN cg.cov : cg.cov[idx].tag # "rec_from_zero_init"

\* ======================================================================
\* compute_loss_pca_pce (src/utils.py 512-678)
\* ======================================================================

RECURSIVE ComprehensionRows(_, _, _)
\* the rows of the comprehension of lines 499-505 from the cursor (m, m1) on
ComprehensionRows(n, m, m1) ==
    IF ~(m + 1 <= Len(arange(n + 1))) THEN <<>>
    ELSE IF ~(m1 + 1 <= Len(InnerRange(m))) THEN ComprehensionRows(n, m + 1, 0)
    ELSE <<MultiIndexRow(arange(n + 1)[m + 1], InnerRange(m)[m1 + 1])>>
            \o ComprehensionRows(n, m, m1 + 1)

\* compute_multi_index as called at line 549
compute_multi_index(n) == TransposeRows(ComprehensionRows(n, 0, 0))

\* int((n_pce + 1) * (n_pce + 2) / 2) of lines 589, 615 and 675
NEps(n) == ((n + 1) * (n + 2)) \div 2

\* the seed option: <<>> is None, <<s>> the integer s
SeedOptions == {<<>>} \cup {<<s>> : s \in 0..MaxSeed}

\* a truthiness test "if seed:" would skip the seed 0
SeedGivenTruthy(seed) == seed # <<>> /\ seed[1] # 0
\* the guard of line 546: kwargs.get("seed", None) is not None
SeedGiven(seed) == seed # <<>>

\* np.random.seed(s): the generator's state is a function of s alone
np_random_seed(seed) == [origin |-> seed, count |-> 0]

\* np.random.randn(...) of `size` scalars: the values are a function of the
\* generator's state, which advances by `size`
Drawn(rng, size) == [origin |-> rng.origin, start |-> rng.count, size |-> size]
Advance(rng, size) == [rng EXCEPT !.count = @ + size]

\* a guard that forgets return_loss_full
RunsFullOnlyEps(a) == a.return_eps_full
\* the guard of line 557
RunsFull(a) == a.return_eps_full \/ a.return_loss_full

\* an except clause for the wrong exception class
CatchesValueError(exc) == exc = "ValueError"
\* the except clause of line 659: except np.linalg.LinAlgError
Catches(exc) == exc = "LinAlgError"

\* ---- the index and shape arithmetic of the eps bookkeeping

\* the order index taken as the difference of the two columns
TabOrderDiff(tab) == [p \in 1..Len(tab.m1) |-> tab.m1[p] - tab.m2[p]]
\* tab_m1 + tab_m2: the order index of every multi-index entry (566, 609, 619)
TabOrder(tab) == [p \in 1..Len(tab.m1) |-> tab.m1[p] + tab.m2[p]]

\* x[idx] with an integer index array on an axis of `extent` rows: numpy
\* accepts -extent .. extent-1 and raises IndexError otherwise
IndexInBounds(idx, extent) ==
    \A p \in 1..Len(idx) : idx[p] >= -extent /\ idx[p] < extent

\* x.T reverses the axes
np_transpose(s) == IF s = ShapeErr THEN ShapeErr ELSE [i \in 1..Len(s) |-> s[Len(s) + 1 - i]]

\* np.tile(v, (reps, 1)) of a vector of length len
np_tile(len, reps) == <<reps, len>>

\* np.array([f(i) for i in range(n)]).T with every f(i) of shape s
StackT(s, n) == np_transpose(<<n>> \o s)

\* np.sum(x, axis=ax), ax 0-based
np_sum(s, ax) ==
    IF s = ShapeErr \/ ax + 1 > Len(s) THEN ShapeErr
    ELSE [i \in 1..(Len(s) - 1) |-> IF i <= ax THEN s[i] ELSE s[i + 1]]

RECURSIVE BroadcastAll(_)
\* the shape of a product of several operands, left to right
BroadcastAll(ss) ==
    IF Len(ss) = 1 THEN ss[1]
    ELSE BroadcastAll(<<Broadcast(ss[1], ss[2])>> \o Tail(Tail(ss)))

\* x[A, B, :] with two integer index arrays: the result has the broadcast
\* shape of A and B followed by the remaining axis
FancyIndex2(sA, sB, rest) ==
    IF Broadcast(sA, sB) = ShapeErr THEN ShapeErr ELSE Broadcast(sA, sB) \o rest

\* the 2-D matrix product s @ t
matmul(s, t) ==
    IF s # ShapeErr /\ t # ShapeErr /\ Len(s) = 2 /\ Len(t) = 2 /\ s[2] = t[1]
    THEN <<s[1], t[2]>> ELSE ShapeErr

\* the shapes mean_cov_pce_quad returns for vectors of length K (338, 363)
QuadMeanShape(n, K) == <<n + 1, K>>
QuadCovShape(n, K) == <<n + 1, n + 1, K>>

\* an exception leaves the function
Raise(l, e) == [l EXCEPT !.pc = "raised", !.err = e]

\* one look-up by the order index: the line, the indices and the number of
\* rows of the indexed axis
Lookup(line, idx, extent) == [at |-> line, idx |-> idx, extent |-> extent]

LossArgs ==
    [n_pce : 0..MaxPce, n_firms : 1..MaxFirms, n_mc : 1..MaxMc,
     return_mean_cov_eps : BOOLEAN, return_eps_full : BOOLEAN,
     return_loss_full : BOOLEAN, seed : SeedOptions,
     \* whether params make cov_eps positive-definite (np.linalg.cholesky
     \* raises LinAlgError exactly when it is not)
     cov_pd : BOOLEAN]

\* the locals of one execution, at entry
LossLocals(args, rng, run, prev) ==
    [pc |-> "seed", args |-> args, rng |-> rng, rng_at_entry |-> rng, run |-> run,
     seed_calls |-> 0, draws |-> <<>>, tab |-> NoTable, lookups |-> <<>>,
     vec_eps_full |-> <<>>, he_m1_m2 |-> <<>>, mean_cov |-> <<>>, vec_eps |-> <<>>,
     ran_full |-> FALSE, ran_quad |-> FALSE, chol_raised |-> FALSE,
     fallback_ran |-> FALSE, err |-> "none", returns |-> 0, result |-> <<>>,
     prev |-> prev]

\* a caller runs compute_loss_pca_pce; the global generator is in the state
\* earlier code left it in
L_Call(args) ==
    /\ lo.pc = "idle"
    /\ lo' = LossLocals(args, [origin |-> <<>>, count |-> 0], 1, <<>>)
    /\ UNCHANGED <<mi_vars, mo_vars>>

\* lines 546-547
L_Seed ==
    /\ lo.pc = "seed"
    /\ lo' = IF SeedGiven(lo.args.seed)
             THEN [lo EXCEPT !.pc = "multi_index", !.seed_calls = @ + 1,
                             !.rng = np_random_seed(lo.args.seed)]
             ELSE [lo EXCEPT !.pc = "multi_index"]
    /\ UNCHANGED <<mi_vars, mo_vars>>

\* lines 549-555
L_MultiIndex ==
    /\ lo.pc = "multi_index"
    /\ lo' = [lo EXCEPT !.pc = "full_branch", !.tab = compute_multi_index(lo.args.n_pce)]
    /\ UNCHANGED <<mi_vars, mo_vars>>

\* line 557
L_FullBranch ==
    /\ lo.pc = "full_branch"
    /\ lo' = [lo EXCEPT !.pc = IF RunsFull(lo.args) THEN "simulate_full" ELSE "hermite"]
    /\ UNCHANGED <<mi_vars, mo_vars>>

\* l1_normalized_m1 and l2_normalized_m2 (550-555): one row per multi-index
\* entry, one column per firm
NormalizedPowers(l) == StackT(<<Len(l.tab.m1)>>, l.args.n_firms)

\* the sum over the firms of lines 569-576, given the shape of
\* tau_vec_a_m1_m2
EpsFullShape(l, tau) ==
    np_sum(BroadcastAll(<< <<1, l.args.n_firms, 1>>,
                          <<Len(l.tab.m_comb), 1, 1>>,
                          tau,
                          NormalizedPowers(l) \o <<1>>,
                          NormalizedPowers(l) \o <<1>> >>), 1)

\* lines 559-579: simulate_vec_eps_full(); params' vectors have one entry
\* per firm
L_SimulateFull ==
    /\ lo.pc = "simulate_full"
    /\ LET size == lo.args.n_firms * lo.args.n_mc
           d == Drawn(lo.rng, size)
           stack == Len(arange(lo.args.n_pce + 1))
           order == TabOrder(lo.tab)
           tau == <<Len(order), lo.args.n_firms, lo.args.n_mc>>
           drawn == [lo EXCEPT !.ran_full = TRUE,
                               !.rng = Advance(lo.rng, size),
                               !.draws = Append(@, d),
                               !.lookups = Append(@, Lookup(566, order, stack))]
       IN  lo' = IF ~IndexInBounds(order, stack) THEN Raise(drawn, "IndexError")
                 ELSE IF EpsFullShape(lo, tau) = ShapeErr THEN Raise(drawn, "ValueError")
                 ELSE [drawn EXCEPT !.pc = "eps_full_branch",
                                    !.vec_eps_full =
                                       <<[kind |-> "eps_full",
                                          shape |-> EpsFullShape(lo, tau),
                                          deps |-> <<d>>]>>]
    /\ UNCHANGED <<mi_vars, mo_vars>>

\* lines 581-582
L_EpsFullBranch ==
    /\ lo.pc = "eps_full_branch"
    /\ lo' = IF lo.args.return_eps_full
             THEN [lo EXCEPT !.pc = "done", !.returns = @ + 1,
                             !.result = lo.vec_eps_full]
             ELSE [lo EXCEPT !.pc = "hermite"]
    /\ UNCHANGED <<mi_vars, mo_vars>>

\* lines 585-591: for i in range(n_eps), two randn(n_mc) per entry; reading
\* tab_m1[i] past the end of the table raises IndexError after the draws of
\* the entries before it
L_Hermite ==
    /\ lo.pc = "hermite"
    /\ LET rows == Len(range(0, NEps(lo.args.n_pce)))
           past == rows > Len(lo.tab.m1)
           size == 2 * (IF past THEN Len(lo.tab.m1) ELSE rows) * lo.args.n_mc
           d == Drawn(lo.rng, size)
           drawn == [lo EXCEPT !.rng = Advance(lo.rng, size),
                               !.draws = Append(@, d)]
       IN  lo' = IF past THEN Raise(drawn, "IndexError")
                 ELSE [drawn EXCEPT !.pc = "loss_full_branch",
                                    !.he_m1_m2 =
                                       <<[kind |-> "he",
                                          shape |-> <<rows, lo.args.n_mc>>,
                                          deps |-> <<d>>]>>]
    /\ UNCHANGED <<mi_vars, mo_vars>>

\* np.sum(x * he_m1_m2, axis=0) of lines 594 and 674-678
LossOf(kind, x, he) ==
    [kind |-> kind,
     shape |-> SumAxis0(Broadcast(x.shape, he.shape)),
     deps |-> x.deps \o he.deps]

\* lines 593-594
L_LossFullBranch ==
    /\ lo.pc = "loss_full_branch"
    /\ lo' = IF ~lo.args.return_loss_full
                THEN [lo EXCEPT !.pc = "mean_cov_branch"]
             ELSE IF lo.vec_eps_full = <<>>
                THEN [lo EXCEPT !.pc = "raised", !.err = "UnboundLocalError"]
             ELSE IF LossOf("loss_full", lo.vec_eps_full[1], lo.he_m1_m2[1]).shape
                        = ShapeErr
                THEN Raise(lo, "ValueError")
             ELSE [lo EXCEPT !.pc = "done", !.returns = @ + 1,
                             !.result = <<LossOf("loss_full", lo.vec_eps_full[1],
                                                 lo.he_m1_m2[1])>>]
    /\ UNCHANGED <<mi_vars, mo_vars>>

\* mean_eps (606-613): the sum over the firms
MeanEpsShape(l) ==
    np_sum(BroadcastAll(<< <<Len(l.tab.m_comb), 1>>,
                          <<1, l.args.n_firms>>,
                          <<Len(TabOrder(l.tab)), l.args.n_firms>>,
                          NormalizedPowers(l),
                          NormalizedPowers(l) >>), 1)

\* cov_eps (615-646): the tiled index matrices, their transposes, the
\* look-up _cov_a_pce[mat_m1_m2, mat_m1_m2.T, :] and the sum over the firms
CovEpsShape(l) ==
    LET n_eps == NEps(l.args.n_pce)
        mat == np_tile(Len(l.tab.m1), n_eps)
        mat_T == np_transpose(mat)
        mat_normalized == StackT(mat, l.args.n_firms)
        mat_normalized_transpose == StackT(mat_T, l.args.n_firms)
        inner == np_sum(BroadcastAll(<< <<1, 1, l.args.n_firms>>,
                                       FancyIndex2(mat, mat_T, <<l.args.n_firms>>),
                                       mat_normalized,
                                       mat_normalized,
                                       mat_normalized_transpose,
                                       mat_normalized_transpose >>), 2)
    IN  BroadcastAll(<<mat, mat_T, inner>>)

\* the look-ups by order index inside get_cov_eps: the mean (609) and both
\* axes of the covariance (639)
CovLookups(l) ==
    <<Lookup(609, TabOrder(l.tab), QuadMeanShape(l.args.n_pce, l.args.n_firms)[1]),
      Lookup(639, TabOrder(l.tab), QuadCovShape(l.args.n_pce, l.args.n_firms)[1]),
      Lookup(639, TabOrder(l.tab), QuadCovShape(l.args.n_pce, l.args.n_firms)[2])>>

\* get_cov_eps() (596-647): runs mean_cov_pce_quad and aggregates; no draw
get_cov_eps(l) ==
    [kind |-> "mean_cov",
     shape |-> MeanEpsShape(l),
     cov_shape |-> CovEpsShape(l),
     err |-> IF \E p \in 1..Len(CovLookups(l)) :
                    ~IndexInBounds(CovLookups(l)[p].idx, CovLookups(l)[p].extent)
             THEN "IndexError"
             ELSE IF FancyIndex2(np_tile(Len(l.tab.m1), NEps(l.args.n_pce)),
                                 np_transpose(np_tile(Len(l.tab.m1), NEps(l.args.n_pce))),
                                 <<l.args.n_firms>>) = ShapeErr
             THEN "IndexError"
             ELSE IF MeanEpsShape(l) = ShapeErr \/ CovEpsShape(l) = ShapeErr
             THEN "ValueError"
             ELSE "none",
     deps |-> <<>>]

\* the state after get_cov_eps() ran in state l: its look-ups are recorded,
\* and an exception it raised leaves compute_loss_pca_pce
AfterGetCov(l, ok) ==
    LET mc == CHOOSE r \in {get_cov_eps(x) : x \in {l}} : TRUE
        ran == [l EXCEPT !.ran_quad = TRUE, !.lookups = @ \o CovLookups(l)]
    IN  IF mc.err # "none" THEN Raise(ran, mc.err)
        ELSE IF ok = "done"
        THEN [ran EXCEPT !.pc = "done", !.returns = @ + 1,
                         !.mean_cov = <<mc>>, !.result = <<mc>>]
        ELSE [ran EXCEPT !.pc = ok, !.mean_cov = <<mc>>]

\* lines 649-650
L_MeanCovBranch ==
    /\ lo.pc = "mean_cov_branch"
    /\ lo' = IF lo.args.return_mean_cov_eps
             THEN AfterGetCov(lo, "done")
             ELSE [lo EXCEPT !.pc = "get_cov"]
    /\ UNCHANGED <<mi_vars, mo_vars>>

\* line 675: the argument *get_cov_eps() is evaluated before the call of
\* simulate_vec_eps
L_GetCov ==
    /\ lo.pc = "get_cov"
    /\ lo' = AfterGetCov(lo, "cholesky")
    /\ UNCHANGED <<mi_vars, mo_vars>>

\* lines 654-659: the try block; np.linalg.cholesky raises LinAlgError
\* before any draw when cov_eps is not positive-definite
L_Cholesky ==
    /\ lo.pc = "cholesky"
    /\ LET n_eps == NEps(lo.args.n_pce)
           size == n_eps * lo.args.n_mc
           d == Drawn(lo.rng, size)
           drawn == [lo EXCEPT !.rng = Advance(lo.rng, size),
                               !.draws = Append(@, d)]
           \* mean_eps[:, None] + chol_cov_eps @ z
           shape == Broadcast(lo.mean_cov[1].shape \o <<1>>,
                              matmul(lo.mean_cov[1].cov_shape, <<n_eps, lo.args.n_mc>>))
       IN  lo' = IF lo.args.cov_pd
                 THEN IF shape = ShapeErr THEN Raise(drawn, "ValueError")
                      ELSE [drawn EXCEPT !.pc = "final",
                                         !.vec_eps =
                                            <<[kind |-> "cholesky",
                                               shape |-> shape,
                                               mean_added |-> TRUE,
                                               deps |-> <<d>>]>>]
                 ELSE IF Catches("LinAlgError")
                 THEN [lo EXCEPT !.pc = "fallback", !.chol_raised = TRUE]
                 ELSE [lo EXCEPT !.pc = "raised", !.chol_raised = TRUE,
                                 !.err = "LinAlgError"]
    /\ UNCHANGED <<mi_vars, mo_vars>>

\* lines 665-671: the eigen-decomposition sampler, one randn(n_mc) per idx
\* in range(n_eps), then the mean is added
L_Fallback ==
    /\ lo.pc = "fallback"
    /\ LET n_eps == NEps(lo.args.n_pce)
           size == n_eps * lo.args.n_mc
           d == Drawn(lo.rng, size)
           eigs_shape == <<lo.mean_cov[1].cov_shape[1]>>
           zeros == <<eigs_shape[1], lo.args.n_mc>>
           drawn == [lo EXCEPT !.fallback_ran = TRUE,
                               !.rng = Advance(lo.rng, size),
                               !.draws = Append(@, d)]
       IN  lo' = IF n_eps > eigs_shape[1] THEN Raise(drawn, "IndexError")
                 ELSE IF ~CanAssign(zeros, lo.mean_cov[1].shape \o <<1>>)
                 THEN Raise(drawn, "ValueError")
                 ELSE [drawn EXCEPT !.pc = "final",
                                    !.vec_eps =
                                       <<[kind |-> "pca",
                                          shape |-> Broadcast(zeros,
                                                       lo.mean_cov[1].shape \o <<1>>),
                                          mean_added |-> TRUE,
                                          deps |-> <<d>>]>>]
    /\ UNCHANGED <<mi_vars, mo_vars>>

\* lines 674-678
L_Final ==
    /\ lo.pc = "final"
    /\ lo' = IF LossOf("loss", lo.vec_eps[1], lo.he_m1_m2[1]).shape = ShapeErr
             THEN Raise(lo, "ValueError")
             ELSE [lo EXCEPT !.pc = "done", !.returns = @ + 1,
                             !.result = <<LossOf("loss", lo.vec_eps[1], lo.he_m1_m2[1])>>]
    /\ UNCHANGED <<mi_vars, mo_vars>>

\* the caller runs the function a second time with the same arguments; the
\* global generator is in the state the first execution left it in
L_Rerun ==
    /\ lo.pc \in {"done", "raised"}
    /\ lo.run = 1
    /\ lo' = LossLocals(lo.args, lo.rng, 2, <<[result |-> lo.result, draws |-> lo.draws]>>)
    /\ UNCHANGED <<mi_vars, mo_vars>>

InitLoss == MI_Idle /\ MO_Idle /\ LO_Idle
NextLoss ==
    \/ \E args \in LossArgs : L_Call(args)
    \/ L_Seed \/ L_MultiIndex \/ L_FullBranch \/ L_SimulateFull \/ L_EpsFullBranch
    \/ L_Hermite \/ L_LossFullBranch \/ L_MeanCovBranch \/ L_GetCov
    \/ L_Cholesky \/ L_Fallback \/ L_Final \/ L_Rerun
SpecLoss == InitLoss /\ [][NextLoss]_vars

\* ----------------------------------------------------------------------
\* claims about compute_loss_pca_pce
\* ----------------------------------------------------------------------

\* C2: in simulate_vec_eps, whenever np.linalg.cholesky raises because
\* cov_eps is not positive-definite, the error is caught, the
\* eigen-decomposition sampler runs and produces an n_eps x n_mc array with
\* the mean added, and the call returns the loss: no error surfaces.
C2_CholeskyFailureFallsBack ==
    (lo.pc # "idle" /\ lo.chol_raised) =>
        /\ ~lo.args.cov_pd
        /\ lo.err = "none"
        /\ lo.pc \in {"fallback", "final", "done"}
        /\ lo.pc \in {"final", "done"} =>
              /\ lo.fallback_ran
              /\ lo.vec_eps # <<>>
              /\ lo.vec_eps[1].kind = "pca"
              /\ lo.vec_eps[1].shape = <<NEps(lo.args.n_pce), lo.args.n_mc>>
              /\ lo.vec_eps[1].mean_added
        /\ lo.pc = "done" =>
              /\ lo.result # <<>>
              /\ lo.result[1].kind = "loss"
              /\ lo.result[1].shape = <<lo.args.n_mc>>

\* a call whose Cholesky factorization failed has returned its loss vector
C2_Witness ==
    /\ lo.pc = "done" /\ lo.chol_raised /\ lo.fallback_ran
    /\ lo.args.n_pce >= 1 /\ lo.args.n_mc >= 2
    /\ lo.result[1].kind = "loss"

\* draws d and e are consecutive outputs of one generator stream
Contiguous(d, e) == e.origin = d.origin /\ e.start = d.start + d.size

\* C7: with seed not None the global generator is seeded exactly once, and
\* before the first draw, on every path (the first draw starts at the
\* seeded state and the later ones follow it); a second execution with the
\* same arguments and seed takes the same draws and returns the same
\* result.
C7_SeededOnceThenReproducible ==
    (lo.pc # "idle" /\ lo.args.seed # <<>>) =>
        /\ lo.seed_calls <= 1
        /\ lo.pc # "seed" => lo.seed_calls = 1
        /\ lo.draws # <<>> =>
              /\ lo.seed_calls = 1
              /\ lo.draws[1].origin = lo.args.seed
              /\ lo.draws[1].start = 0
              /\ \A p \in 1..(Len(lo.draws) - 1) :
                    Contiguous(lo.draws[p], lo.draws[p + 1])
        /\ (lo.run = 2 /\ lo.pc \in {"done", "raised"}) =>
              /\ lo.draws = lo.prev[1].draws
              /\ lo.result = lo.prev[1].result

\* the second of two seeded executions of the moment-matched path returned
C7_Witness ==
    /\ lo.pc = "done" /\ lo.run = 2 /\ lo.args.seed = <<0>>
    /\ Len(lo.draws) = 2
    /\ lo.result[1].kind = "loss"
    /\ lo.rng_at_entry # np_random_seed(lo.args.seed)

\* the return path the flags select
PathOf(a) ==
    IF a.return_eps_full THEN "eps_full"
    ELSE IF a.return_loss_full THEN "loss_full"
    ELSE IF a.return_mean_cov_eps THEN "mean_cov"
    ELSE "loss"

\* C9: for every combination of the three flags exactly one return path is
\* taken, in the order return_eps_full, return_loss_full,
\* return_mean_cov_eps, moment-matched loss; the full simulation runs iff
\* return_eps_full or return_loss_full, the quadrature engine runs iff
\* neither is set, and the full-simulation eps is never read unbound.
C9_ReturnPaths ==
    lo.pc # "idle" =>
        /\ lo.err # "UnboundLocalError"
        /\ lo.returns <= 1
        /\ lo.ran_full => (lo.args.return_eps_full \/ lo.args.return_loss_full)
        /\ lo.ran_quad => ~(lo.args.return_eps_full \/ lo.args.return_loss_full)
        /\ lo.pc # "raised"
        /\ lo.pc = "done" =>
              /\ lo.returns = 1
              /\ lo.result # <<>>
              /\ lo.result[1].kind = PathOf(lo.args)
              /\ lo.ran_full <=> (lo.args.return_eps_full \/ lo.args.return_loss_full)
              /\ lo.ran_quad <=> ~(lo.args.return_eps_full \/ lo.args.return_loss_full)
              /\ PathOf(lo.args) = "eps_full" => lo.result = lo.vec_eps_full
              /\ PathOf(lo.args) = "loss_full" =>
                    lo.result[1].deps = lo.vec_eps_full[1].deps \o lo.he_m1_m2[1].deps
              /\ PathOf(lo.args) = "mean_cov" => lo.result = lo.mean_cov
              /\ PathOf(lo.args) = "loss" =>
                    lo.result[1].deps = lo.vec_eps[1].deps \o lo.he_m1_m2[1].deps

\* the raw full loss has been returned: return_loss_full without
\* return_eps_full, all three flags otherwise set
C9_Witness ==
    /\ lo.pc = "done"
    /\ lo.args.return_loss_full /\ ~lo.args.return_eps_full
    /\ lo.args.return_mean_cov_eps
    /\ lo.result[1].kind = "loss_full"
    /\ lo.ran_full /\ ~lo.ran_quad

\* C10 as stated: with return_mean_cov_eps set and neither full-simulation
\* flag, the call returns (mean_eps, cov_eps) without any draw from the
\* random source: at the return the generator is in the state fixed by the
\* seed, or unchanged when seed is None.
C10_MomentsOnlyDrawsNothing ==
    (/\ lo.pc = "done"
     /\ lo.args.return_mean_cov_eps
     /\ ~lo.args.return_eps_full /\ ~lo.args.return_loss_full) =>
        /\ lo.result[1].kind = "mean_cov"
        /\ lo.draws = <<>>
        /\ lo.rng = IF lo.args.seed = <<>> THEN lo.rng_at_entry
                    ELSE np_random_seed(lo.args.seed)

\* C12: for every n_pce >= 0 the eps bookkeeping is index- and
\* shape-consistent: no look-up or product raises; every order index
\* tab_m1[p] + tab_m2[p] used on the per-order coefficient stack (566) and
\* on the moment tensors (609, 639) lies in 0..n_pce, the indexed axis
\* having n_pce + 1 rows; the multi-index table, the Hermite-product array,
\* mean_eps, both axes of cov_eps and the simulated eps arrays all have
\* (n_pce+1)(n_pce+2)/2 rows; the returned loss vector has length n_mc.
C12_EpsBookkeepingConsistent ==
    lo.pc # "idle" =>
        LET n == lo.args.n_pce
            n_eps == ((n + 1) * (n + 2)) \div 2
        IN  /\ lo.err \notin {"IndexError", "ValueError"}
            /\ lo.pc \notin {"seed", "multi_index"} =>
                  /\ Len(lo.tab.m1) = n_eps
                  /\ Len(lo.tab.m2) = n_eps
                  /\ Len(lo.tab.m_comb) = n_eps
            /\ \A q \in 1..Len(lo.lookups) :
                  /\ lo.lookups[q].extent = n + 1
                  /\ Len(lo.lookups[q].idx) = n_eps
                  /\ \A p \in 1..Len(lo.lookups[q].idx) :
                        lo.lookups[q].idx[p] \in 0..n
            /\ lo.vec_eps_full # <<>> =>
                  lo.vec_eps_full[1].shape = <<n_eps, lo.args.n_mc>>
            /\ lo.he_m1_m2 # <<>> =>
                  lo.he_m1_m2[1].shape = <<n_eps, lo.args.n_mc>>
            /\ lo.mean_cov # <<>> =>
                  /\ lo.mean_cov[1].shape = <<n_eps>>
                  /\ lo.mean_cov[1].cov_shape = <<n_eps, n_eps>>
            /\ lo.vec_eps # <<>> =>
                  lo.vec_eps[1].shape = <<n_eps, lo.args.n_mc>>
            /\ (lo.pc = "done" /\ lo.result[1].kind \in {"loss", "loss_full"}) =>
                  lo.result[1].shape = <<lo.args.n_mc>>
            /\ lo.pc = "done" => lo.lookups # <<>>

\* a moment-matched loss of order >= 2 for two firms has been returned: the
\* three look-ups of get_cov_eps were made with order indices up to n_pce
C12_Witness ==
    /\ lo.pc = "done"
    /\ lo.result[1].kind = "loss"
    /\ lo.args.n_pce >= 2 /\ lo.args.n_firms >= 2 /\ lo.args.n_mc >= 2
    /\ Len(lo.lookups) = 3
    /\ \E p \in 1..Len(lo.lookups[3].idx) : lo.lookups[3].idx[p] = lo.args.n_pce
    /\ lo.vec_eps[1].shape[1] = Len(lo.tab.m1)
    /\ Len(lo.tab.m1) >= 6

=============================================================================
